---- MODULE Spec2Model ----
(***************************************************************************)
(* ATP (Application Turning Point) by the Half-Latency Rule.               *)
(*                                                                         *)
(* Model of atp/computation.py (the knee computation) and of the part of   *)
(* atp/cli.py that drives it.  Floating-point values are modelled as exact *)
(* rationals; the one non-real value the code handles, NaN, is the value   *)
(* with denominator 0.  Rounding and infinities are outside the model.     *)
(* Array indices in results are 0-based, as in the code; TLA+ sequences    *)
(* are 1-based, so element i of an array is s[i + 1].                      *)
(***************************************************************************)
EXTENDS Integers, Sequences, FiniteSets, TLC

\* ---------------------------------------------------------------- bounds

\* longest input array drawn
MaxLen == 3

\* longest table a command-line run reads
MainMaxLen == 2

\* values an IOPS cell may hold (besides NaN)
IopsValues == {1, 2}

\* values a latency cell may hold (besides NaN)
LatencyValues == {1, 2, 3}

\* values the cells of a table read by a command-line run hold
MainIopsValues == {1, 2}

MainLatencyValues == {1, 3}

\* rule selectors passed by a caller; "bogus" stands for any other string
Rules == {"midrange", "double_min", "bogus"}

\* ------------------------------------------------------------ float values

Abs(i) == IF i < 0 THEN -i ELSE i

RECURSIVE GCD(_, _)
GCD(a, b) == IF b = 0 THEN a ELSE GCD(b, a % b)

\* float('nan')
NaN == [n |-> 0, d |-> 0]

IsNaN(a) == a.d = 0

\* the float n/d in lowest terms with a positive denominator
Norm(n, d) ==
    IF d = 0 THEN NaN
    ELSE LET g == GCD(Abs(n), Abs(d))
             s == IF d < 0 THEN -1 ELSE 1
         IN  [n |-> (s * n) \div g, d |-> (s * d) \div g]

\* float(i)
F(i) == [n |-> i, d |-> 1]

AddValues(a, b) == IF IsNaN(a) \/ IsNaN(b) THEN NaN ELSE Norm(a.n * b.d + b.n * a.d, a.d * b.d)

SubValues(a, b) == IF IsNaN(a) \/ IsNaN(b) THEN NaN ELSE Norm(a.n * b.d - b.n * a.d, a.d * b.d)

MulValues(a, b) == IF IsNaN(a) \/ IsNaN(b) THEN NaN ELSE Norm(a.n * b.n, a.d * b.d)

DivValues(a, b) == IF IsNaN(a) \/ IsNaN(b) THEN NaN ELSE Norm(a.n * b.d, a.d * b.n)

\* TLC passes operands unevaluated; binding them to u and v evaluates each
\* operand once, however often the operation reads it.
Add(a, b) == CHOOSE r \in {AddValues(u, v) : u \in {a}, v \in {b}} : TRUE

Sub(a, b) == CHOOSE r \in {SubValues(u, v) : u \in {a}, v \in {b}} : TRUE

Mul(a, b) == CHOOSE r \in {MulValues(u, v) : u \in {a}, v \in {b}} : TRUE

Div(a, b) == CHOOSE r \in {DivValues(u, v) : u \in {a}, v \in {b}} : TRUE

\* IEEE comparisons: every comparison with NaN is false
Lt(a, b) == ~IsNaN(a) /\ ~IsNaN(b) /\ a.n * b.d < b.n * a.d

Le(a, b) == ~IsNaN(a) /\ ~IsNaN(b) /\ a.n * b.d <= b.n * a.d

Ge(a, b) == Le(b, a)

Eq(a, b) == ~IsNaN(a) /\ ~IsNaN(b) /\ a.n * b.d = b.n * a.d

\* Optional[...]: None, or a value
None == {}

Some(v) == {v}

The(o) == CHOOSE v \in o : TRUE

\* positions of an array holding a value (not NaN)
Present(a) == {i \in 1..Len(a) : ~IsNaN(a[i])}

\* arrays of length 0..n over a set of cell values
ArraysUpTo(S, n) == UNION {[1..k -> S] : k \in 0..n}

IopsCells == {NaN} \cup {F(i) : i \in IopsValues}

LatencyCells == {NaN} \cup {F(i) : i \in LatencyValues}

\* --------------------------------------------------------- computation.py

\* a[mask]: the elements of a at the positions where mask holds, in order
RECURSIVE BoolIndex(_, _, _)
BoolIndex(a, mask, i) ==
    IF i > Len(a) THEN <<>>
    ELSE (IF mask[i] THEN <<a[i]>> ELSE <<>>) \o BoolIndex(a, mask, i + 1)

\* np.argsort(a) as a 1-based permutation; equal keys keep their order
ArgSort(a) ==
    LET rank(i) == 1 + Cardinality({j \in 1..Len(a) : Lt(a[j], a[i]) \/ (a[j] = a[i] /\ j < i)})
    IN  [k \in 1..Len(a) |-> CHOOSE i \in 1..Len(a) : rank(i) = k]

\* _validate_xy returning iops[order], latency[order], the return statement
\* left commented out at line 53
_validate_xy_sorted(iops, latency) ==
    IF Len(iops) # Len(latency)
    THEN [err |-> "iops and latency must be the same length", iops |-> <<>>, latency |-> <<>>]
    ELSE IF Len(iops) < 2
    THEN [err |-> "need at least two points to determine a knee", iops |-> <<>>, latency |-> <<>>]
    ELSE LET mask == [i \in 1..Len(iops) |-> ~(IsNaN(iops[i]) \/ IsNaN(latency[i]))]
             xi == BoolIndex(iops, mask, 1)
             yi == BoolIndex(latency, mask, 1)
             order == ArgSort(xi)
         IN  IF Len(xi) < 2
             THEN [err |-> "not enough valid points after removing NaNs", iops |-> <<>>, latency |-> <<>>]
             ELSE [err |-> "", iops |-> [k \in 1..Len(xi) |-> xi[order[k]]],
                   latency |-> [k \in 1..Len(yi) |-> yi[order[k]]]]

\* _validate_xy whose second size test lets a single valid pair through
_validate_xy_one_pair_enough(iops, latency) ==
    IF Len(iops) # Len(latency)
    THEN [err |-> "iops and latency must be the same length", iops |-> <<>>, latency |-> <<>>]
    ELSE IF Len(iops) < 2
    THEN [err |-> "need at least two points to determine a knee", iops |-> <<>>, latency |-> <<>>]
    ELSE LET mask == [i \in 1..Len(iops) |-> ~(IsNaN(iops[i]) \/ IsNaN(latency[i]))]
             xi == BoolIndex(iops, mask, 1)
             yi == BoolIndex(latency, mask, 1)
         IN  IF Len(xi) < 1
             THEN [err |-> "not enough valid points after removing NaNs", iops |-> <<>>, latency |-> <<>>]
             ELSE [err |-> "", iops |-> xi, latency |-> yi]

\* _validate_xy that computes the mask and the size test but returns the
\* arrays without applying the mask
_validate_xy_mask_not_applied(iops, latency) ==
    IF Len(iops) # Len(latency)
    THEN [err |-> "iops and latency must be the same length", iops |-> <<>>, latency |-> <<>>]
    ELSE IF Len(iops) < 2
    THEN [err |-> "need at least two points to determine a knee", iops |-> <<>>, latency |-> <<>>]
    ELSE LET mask == [i \in 1..Len(iops) |-> ~(IsNaN(iops[i]) \/ IsNaN(latency[i]))]
             xi == BoolIndex(iops, mask, 1)
         IN  IF Len(xi) < 2
             THEN [err |-> "not enough valid points after removing NaNs", iops |-> <<>>, latency |-> <<>>]
             ELSE [err |-> "", iops |-> iops, latency |-> latency]

\* _validate_xy with a mask built from iops alone: ~np.isnan(iops)
_validate_xy_mask_iops_only(iops, latency) ==
    IF Len(iops) # Len(latency)
    THEN [err |-> "iops and latency must be the same length", iops |-> <<>>, latency |-> <<>>]
    ELSE IF Len(iops) < 2
    THEN [err |-> "need at least two points to determine a knee", iops |-> <<>>, latency |-> <<>>]
    ELSE LET mask == [i \in 1..Len(iops) |-> ~IsNaN(iops[i])]
             xi == BoolIndex(iops, mask, 1)
             yi == BoolIndex(latency, mask, 1)
         IN  IF Len(xi) < 2
             THEN [err |-> "not enough valid points after removing NaNs", iops |-> <<>>, latency |-> <<>>]
             ELSE [err |-> "", iops |-> xi, latency |-> yi]

\* _validate_xy on 1-D arrays.  The argsort of line 51 is computed and
\* dropped: line 52 returns the arrays in their masked, unsorted order.
_validate_xy(iops, latency) ==
    IF Len(iops) # Len(latency)
    THEN [err |-> "iops and latency must be the same length", iops |-> <<>>, latency |-> <<>>]
    ELSE IF Len(iops) < 2
    THEN [err |-> "need at least two points to determine a knee", iops |-> <<>>, latency |-> <<>>]
    ELSE LET mask == [i \in 1..Len(iops) |-> ~(IsNaN(iops[i]) \/ IsNaN(latency[i]))]
             xi == BoolIndex(iops, mask, 1)
             yi == BoolIndex(latency, mask, 1)
         IN  IF Len(xi) < 2
             THEN [err |-> "not enough valid points after removing NaNs", iops |-> <<>>, latency |-> <<>>]
             ELSE [err |-> "", iops |-> xi, latency |-> yi]

\* np.pad(y, pad_width=pad, mode="edge")
PadEdge(y, pad) ==
    [i \in 1..(Len(y) + 2 * pad) |->
        IF i <= pad THEN y[1]
        ELSE IF i > pad + Len(y) THEN y[Len(y)]
        ELSE y[i - pad]]

RECURSIVE SumRange(_, _, _)
SumRange(a, lo, hi) == IF lo > hi THEN F(0) ELSE Add(a[lo], SumRange(a, lo + 1, hi))

\* np.convolve(a, np.ones(w) / w, mode="valid"), for 1 <= w <= len(a)
ConvolveValid(a, w) ==
    [j \in 1..(Len(a) - w + 1) |-> Div(SumRange(a, j, j + w - 1), F(w))]

\* moving_average(y, window) for a non-empty y; window is None or an int
moving_average(y, window) ==
    IF window = None \/ The(window) <= 1 THEN y
    ELSE LET w == IF The(window) > Len(y) THEN Len(y) ELSE The(window)
             pad == w \div 2
             y_pad == PadEdge(y, pad)
             y_smooth == ConvolveValid(y_pad, w)
         IN  IF Len(y_smooth) > Len(y)
             THEN LET start == (Len(y_smooth) - Len(y)) \div 2
                  IN  SubSeq(y_smooth, start + 1, start + Len(y))
             ELSE y_smooth

\* np.nanmin / np.nanmax of a non-empty array: NaN entries are skipped,
\* and an array of NaNs only gives NaN
NonNaN(a) == {a[i] : i \in {j \in 1..Len(a) : ~IsNaN(a[j])}}

nanmin(a) ==
    IF NonNaN(a) = {} THEN NaN
    ELSE CHOOSE m \in NonNaN(a) : \A v \in NonNaN(a) : Le(m, v)

nanmax(a) ==
    IF NonNaN(a) = {} THEN NaN
    ELSE CHOOSE m \in NonNaN(a) : \A v \in NonNaN(a) : Le(v, m)

\* compute_half_latency with np.min / np.max in place of np.nanmin /
\* np.nanmax: a missing entry poisons the reduction
compute_half_latency_plain_minmax(latency, rule) ==
    IF Len(latency) = 0
    THEN [err |-> "zero-size array to reduction operation", value |-> NaN]
    ELSE LET lat_min == IF Present(latency) = 1..Len(latency) THEN nanmin(latency) ELSE NaN
             lat_max == IF Present(latency) = 1..Len(latency) THEN nanmax(latency) ELSE NaN
         IN  IF rule = "midrange"
             THEN [err |-> "", value |-> Mul(Norm(1, 2), Add(lat_min, lat_max))]
             ELSE IF rule = "double_min"
             THEN [err |-> "", value |-> Mul(F(2), lat_min)]
             ELSE [err |-> "Unknown half-latency rule", value |-> NaN]

\* compute_half_latency falling back to the default rule for a selector it
\* does not know
compute_half_latency_default_rule(latency, rule) ==
    IF Len(latency) = 0
    THEN [err |-> "zero-size array to reduction operation", value |-> NaN]
    ELSE IF rule = "double_min"
    THEN [err |-> "", value |-> Mul(F(2), nanmin(latency))]
    ELSE [err |-> "", value |-> Mul(Norm(1, 2), Add(nanmin(latency), nanmax(latency)))]

\* compute_half_latency whose midrange lacks the factor 0.5: lat_min + lat_max
compute_half_latency_midrange_sum(latency, rule) ==
    IF Len(latency) = 0
    THEN [err |-> "zero-size array to reduction operation", value |-> NaN]
    ELSE IF rule = "midrange"
    THEN [err |-> "", value |-> Add(nanmin(latency), nanmax(latency))]
    ELSE IF rule = "double_min"
    THEN [err |-> "", value |-> Mul(F(2), nanmin(latency))]
    ELSE [err |-> "Unknown half-latency rule", value |-> NaN]

\* compute_half_latency(latency, rule).  The reductions of lines 75-76 run
\* before the rule is looked at and raise on an empty array.
compute_half_latency(latency, rule) ==
    IF Len(latency) = 0
    THEN [err |-> "zero-size array to reduction operation", value |-> NaN]
    ELSE LET lat_min == nanmin(latency)
             lat_max == nanmax(latency)
         IN  IF rule = "midrange"
             THEN [err |-> "", value |-> Mul(Norm(1, 2), Add(lat_min, lat_max))]
             ELSE IF rule = "double_min"
             THEN [err |-> "", value |-> Mul(F(2), lat_min)]
             ELSE [err |-> "Unknown half-latency rule", value |-> NaN]

\* the mask latency >= L_half
GeMask(latency, L_half) == {i \in 1..Len(latency) : Ge(latency[i], L_half)}

\* np.argmax(latency >= L_half): 0-based index of the first True, 0 if none
ArgMaxGe(latency, L_half) ==
    IF GeMask(latency, L_half) = {} THEN 0
    ELSE (CHOOSE i \in GeMask(latency, L_half) : \A j \in GeMask(latency, L_half) : i <= j) - 1

\* line 90 counting the two indices from 1 instead of 0
KneeLastPoint_counted_from_one(iops, latency) ==
    [atp_iops |-> iops[Len(iops)], knee_latency |-> latency[Len(latency)],
     il |-> IF Len(iops) >= 2 THEN Some(Len(iops) - 1) ELSE None, ir |-> Some(Len(iops))]

\* line 90: the threshold is never reached, return the last point
KneeLastPoint(iops, latency) ==
    [atp_iops |-> iops[Len(iops)], knee_latency |-> latency[Len(latency)],
     il |-> IF Len(iops) >= 2 THEN Some(Len(iops) - 2) ELSE None, ir |-> Some(Len(iops) - 1)]

\* lines 92-94: sample idx itself is the knee
KneeAtSample(iops, latency, idx) ==
    [atp_iops |-> iops[idx + 1], knee_latency |-> latency[idx + 1],
     il |-> IF idx = 0 THEN None ELSE Some(idx - 1), ir |-> Some(idx)]

\* lines 96-102: linear interpolation between samples idx-1 and idx
KneeInterpolated(iops, latency, L_half, idx) ==
    LET x0 == iops[idx]
        y0 == latency[idx]
        x1 == iops[idx + 1]
        y1 == latency[idx + 1]
    IN  IF Eq(y1, y0)
        THEN [atp_iops |-> x1, knee_latency |-> y1, il |-> Some(idx - 1), ir |-> Some(idx)]
        ELSE LET t == Div(Sub(L_half, y0), Sub(y1, y0))
                 xk == Add(x0, Mul(t, Sub(x1, x0)))
             IN  [atp_iops |-> xk, knee_latency |-> L_half, il |-> Some(idx - 1), ir |-> Some(idx)]

\* _interpolate_knee measuring the fraction from the right-hand sample:
\* t = (y1 - L_half) / (y1 - y0)
_interpolate_knee_fraction_from_right(iops, latency, L_half) ==
    LET idx == ArgMaxGe(latency, L_half)
    IN  IF GeMask(latency, L_half) = {}
        THEN KneeLastPoint(iops, latency)
        ELSE IF Eq(latency[idx + 1], L_half) \/ idx = 0
        THEN KneeAtSample(iops, latency, idx)
        ELSE LET t == Div(Sub(latency[idx + 1], L_half), Sub(latency[idx + 1], latency[idx]))
             IN  [KneeInterpolated(iops, latency, L_half, idx)
                    EXCEPT !.atp_iops = Add(iops[idx], Mul(t, Sub(iops[idx + 1], iops[idx])))]

\* _interpolate_knee without the any() test of line 88: argmax gives 0 when
\* nothing reaches the threshold, and sample 0 is reported
_interpolate_knee_without_any_test(iops, latency, L_half) ==
    LET idx == ArgMaxGe(latency, L_half)
    IN  IF Eq(latency[idx + 1], L_half) \/ idx = 0
        THEN KneeAtSample(iops, latency, idx)
        ELSE KneeInterpolated(iops, latency, L_half, idx)

\* _interpolate_knee with left = idx - 1 whatever idx is
_interpolate_knee_left_always(iops, latency, L_half) ==
    LET idx == ArgMaxGe(latency, L_half)
    IN  IF GeMask(latency, L_half) = {}
        THEN KneeLastPoint(iops, latency)
        ELSE IF Eq(latency[idx + 1], L_half) \/ idx = 0
        THEN [KneeAtSample(iops, latency, idx) EXCEPT !.il = Some(idx - 1)]
        ELSE KneeInterpolated(iops, latency, L_half, idx)

\* _interpolate_knee taking the last index that reaches the threshold in
\* place of the first: size - 1 - np.argmax((latency >= L_half)[::-1])
_interpolate_knee_last_crossing(iops, latency, L_half) ==
    LET idx == IF GeMask(latency, L_half) = {} THEN 0
               ELSE (CHOOSE i \in GeMask(latency, L_half) :
                        \A j \in GeMask(latency, L_half) : j <= i) - 1
    IN  IF GeMask(latency, L_half) = {}
        THEN KneeLastPoint(iops, latency)
        ELSE IF Eq(latency[idx + 1], L_half) \/ idx = 0
        THEN KneeAtSample(iops, latency, idx)
        ELSE KneeInterpolated(iops, latency, L_half, idx)

\* _interpolate_knee(iops, latency, L_half) for arrays of equal length >= 1
_interpolate_knee(iops, latency, L_half) ==
    LET idx == ArgMaxGe(latency, L_half)
    IN  IF GeMask(latency, L_half) = {}
        THEN KneeLastPoint(iops, latency)
        ELSE IF Eq(latency[idx + 1], L_half) \/ idx = 0
        THEN KneeAtSample(iops, latency, idx)
        ELSE KneeInterpolated(iops, latency, L_half, idx)

\* KneeResult(...)
KneeResult(atp_iops, knee_latency, half_latency, knee_index_left, knee_index_right) ==
    [atp_iops |-> atp_iops, knee_latency |-> knee_latency, half_latency |-> half_latency,
     knee_index_left |-> knee_index_left, knee_index_right |-> knee_index_right]

\* line 125: moving_average(y, smooth_window) if smooth_window and smooth_window > 1 else y
SmoothedLatency(y, smooth_window) ==
    IF smooth_window # None /\ The(smooth_window) # 0 /\ The(smooth_window) > 1
    THEN moving_average(y, smooth_window)
    ELSE y

\* find_knee_half_latency(iops, latency, rule, smooth_window) as one function:
\* the error raised, or the KneeResult returned
find_knee_half_latency(iops, latency, rule, smooth_window) ==
    LET v == _validate_xy(iops, latency)
    IN  IF v.err # "" THEN [err |-> v.err, ret |-> None]
        ELSE LET y_use == SmoothedLatency(v.latency, smooth_window)
                 h == compute_half_latency(y_use, rule)
             IN  IF h.err # "" THEN [err |-> h.err, ret |-> None]
                 ELSE LET k == _interpolate_knee(v.iops, y_use, h.value)
                      IN  [err |-> "",
                           ret |-> Some(KneeResult(k.atp_iops, k.knee_latency, h.value, k.il, k.ir))]

\* ------------------------------------------------------------------ state

VARIABLES
    entry,          \* the public function the caller invoked
    iops,           \* argument iops of find_knee_half_latency
    latency,        \* argument latency
    rule,           \* argument rule
    smooth_window,  \* argument smooth_window: None or Some(int)
    pc,             \* position in the invoked function
    x,              \* local x of find_knee_half_latency (validated iops)
    y,              \* local y (validated latency)
    y_use,          \* local y_use (latency handed to threshold and locator)
    L_half,         \* local L_half
    ret,            \* value returned: None until the function returns
    err,            \* message of the ValueError raised, "" if none
    mpc,            \* position in cli.main, "none" when no command-line run
    args,           \* main's parsed arguments
    table,          \* main's (iops, latency) read from args.input
    table2,         \* main's (iops2, latency2) read from args.input2
    res,            \* main's res: None until assigned
    res2,           \* main's res2: None until assigned
    report,         \* the text report written, None if none
    plot,           \* the plot rendered, None if none
    status,         \* exit status of the process, None while running
    window,         \* parameter window of moving_average, rebound by lines 59-61
    y_pad,          \* local y_pad of moving_average
    y_smooth        \* local y_smooth of moving_average, before the trim of line 70

frameVars == <<entry, iops, latency, rule, smooth_window, pc, x, y, y_use, L_half, ret, err>>

mainVars == <<mpc, args, table, table2, res, res2, report, plot, status>>

smoothVars == <<window, y_pad, y_smooth>>

vars == <<frameVars, mainVars, smoothVars>>

argVars == <<entry, iops, latency, rule, smooth_window>>

\* smoothing windows a caller passes: None, 1 (no smoothing), an even one,
\* an odd one, and one longer than every array drawn
WindowValues == {1, 2, 3, MaxLen + 2}

Windows == {None} \cup {Some(w) : w \in WindowValues}

\* a frame whose locals are not bound yet
FreshFrame ==
    /\ x = <<>>
    /\ y = <<>>
    /\ y_use = <<>>
    /\ L_half = NaN
    /\ ret = None
    /\ err = ""
    /\ window = None
    /\ y_pad = <<>>
    /\ y_smooth = <<>>

NoTable == [iops |-> <<>>, latency |-> <<>>]

\* no command-line run: the functions are called as a library
NoMain ==
    /\ mpc = "none"
    /\ args = [rule |-> "midrange", smooth |-> None, input2 |-> FALSE, plot |-> FALSE]
    /\ table = NoTable
    /\ table2 = NoTable
    /\ res = None
    /\ res2 = None
    /\ report = None
    /\ plot = None
    /\ status = None

\* positions of an array holding NaN
Missing(a) == (1..Len(a)) \ Present(a)

\* a caller invokes find_knee_half_latency(iops, latency, rule, smooth_window)
\* on two 1-D arrays whose lengths differ by at most one and which have
\* missing values at one position at most
InitFindKnee ==
    /\ entry = "find_knee_half_latency"
    /\ iops \in ArraysUpTo(IopsCells, MaxLen)
    /\ latency \in ArraysUpTo(LatencyCells, MaxLen)
    /\ Abs(Len(iops) - Len(latency)) <= 1
    /\ Cardinality(Missing(iops) \cup Missing(latency)) <= 1
    /\ rule \in Rules
    /\ smooth_window \in Windows
    /\ pc = "start"
    /\ FreshFrame
    /\ NoMain

\* a caller invokes the helper compute_half_latency(latency, rule) directly
InitHalfLatency ==
    /\ entry = "compute_half_latency"
    /\ iops = <<>>
    /\ latency \in ArraysUpTo(LatencyCells, MaxLen)
    /\ rule \in Rules
    /\ smooth_window = None
    /\ pc = "start"
    /\ FreshFrame
    /\ NoMain

Init == InitFindKnee \/ InitHalfLatency

\* find_knee_half_latency lines 122-124: x, y = _validate_xy(x, y)
Validate ==
    /\ entry = "find_knee_half_latency"
    /\ pc = "start"
    /\ LET v == _validate_xy(iops, latency)
       IN  IF v.err # ""
           THEN /\ pc' = "raised"
                /\ err' = v.err
                /\ UNCHANGED <<x, y>>
           ELSE /\ pc' = "validated"
                /\ x' = v.iops
                /\ y' = v.latency
                /\ UNCHANGED err
    /\ UNCHANGED <<argVars, y_use, L_half, ret, mainVars, smoothVars>>

\* line 125: y_use = moving_average(y, smooth_window) if smooth_window and smooth_window > 1 else y
Smooth ==
    /\ pc = "validated"
    /\ pc' = "smoothed"
    /\ y_use' = SmoothedLatency(y, smooth_window)
    /\ UNCHANGED <<argVars, x, y, L_half, ret, err, mainVars, smoothVars>>

\* line 126 with the threshold of an earlier call kept and reused
HalfLatencyMemoized ==
    /\ pc = "smoothed"
    /\ LET h == IF IsNaN(L_half) THEN compute_half_latency(y_use, rule)
                ELSE [err |-> "", value |-> L_half]
       IN  IF h.err # ""
           THEN /\ pc' = "raised"
                /\ err' = h.err
                /\ UNCHANGED L_half
           ELSE /\ pc' = "thresholded"
                /\ L_half' = h.value
                /\ UNCHANGED err
    /\ UNCHANGED <<argVars, x, y, y_use, ret, mainVars, smoothVars>>

\* line 126: L_half = compute_half_latency(y_use, rule=rule)
HalfLatency ==
    /\ pc = "smoothed"
    /\ LET h == compute_half_latency(y_use, rule)
       IN  IF h.err # ""
           THEN /\ pc' = "raised"
                /\ err' = h.err
                /\ UNCHANGED L_half
           ELSE /\ pc' = "thresholded"
                /\ L_half' = h.value
                /\ UNCHANGED err
    /\ UNCHANGED <<argVars, x, y, y_use, ret, mainVars, smoothVars>>

\* lines 127-128: _interpolate_knee(x, y_use, L_half), return KneeResult(...)
Locate ==
    /\ pc = "thresholded"
    /\ LET k == _interpolate_knee(x, y_use, L_half)
       IN  ret' = Some(KneeResult(k.atp_iops, k.knee_latency, L_half, k.il, k.ir))
    /\ pc' = "returned"
    /\ UNCHANGED <<argVars, x, y, y_use, L_half, err, mainVars, smoothVars>>

\* the helper compute_half_latency called on its own
CallComputeHalfLatency ==
    /\ entry = "compute_half_latency"
    /\ pc = "start"
    /\ LET h == compute_half_latency(latency, rule)
       IN  IF h.err # ""
           THEN /\ pc' = "raised"
                /\ err' = h.err
                /\ UNCHANGED ret
           ELSE /\ pc' = "returned"
                /\ ret' = Some(h.value)
                /\ UNCHANGED err
    /\ UNCHANGED <<argVars, x, y, y_use, L_half, mainVars, smoothVars>>

Next == Validate \/ Smooth \/ HalfLatency \/ Locate \/ CallComputeHalfLatency

Spec == Init /\ [][Next]_vars

\* the body of a called function keeps executing until it returns or raises
FairSpec == Init /\ [][Next]_vars /\ WF_vars(Next)

\* -------------------------------------------- moving_average, step by step

\* window values a caller of moving_average passes: None, values <= 1, an
\* even one, an odd one, and one longer than every array drawn
DirectWindows == {None} \cup {Some(w) : w \in {0, 1, 2, 3, MaxLen + 2}}

\* a caller invokes moving_average(y, window) on a non-empty array; the
\* value the caller passed stays readable in smooth_window
InitMovingAverage ==
    /\ entry = "moving_average"
    /\ y \in ArraysUpTo(LatencyCells, MaxLen)
    /\ Len(y) >= 1
    /\ smooth_window \in DirectWindows
    /\ window = smooth_window
    /\ iops = <<>>
    /\ latency = <<>>
    /\ rule = "midrange"
    /\ pc = "start"
    /\ x = <<>>
    /\ y_use = <<>>
    /\ L_half = NaN
    /\ ret = None
    /\ err = ""
    /\ y_pad = <<>>
    /\ y_smooth = <<>>
    /\ NoMain

\* lines 57-61: return y for no window or a window <= 1, else clamp the
\* window to the array's size
ClampWindow ==
    /\ entry = "moving_average"
    /\ pc = "start"
    /\ IF window = None \/ The(window) <= 1
       THEN /\ pc' = "returned"
            /\ ret' = Some(y)
            /\ UNCHANGED window
       ELSE /\ pc' = "clamped"
            /\ window' = Some(IF The(window) > Len(y) THEN Len(y) ELSE The(window))
            /\ UNCHANGED ret
    /\ UNCHANGED <<argVars, x, y, y_use, L_half, err, mainVars, y_pad, y_smooth>>

\* lines 63-66: pad by window // 2 edge values on each side, convolve with
\* the kernel of window equal weights
PadAndConvolve ==
    /\ entry = "moving_average"
    /\ pc = "clamped"
    /\ y_pad' = PadEdge(y, The(window) \div 2)
    /\ y_smooth' = ConvolveValid(y_pad', The(window))
    /\ pc' = "convolved"
    /\ UNCHANGED <<argVars, x, y, y_use, L_half, ret, err, mainVars, window>>

\* line 71 alone: y_smooth returned as the convolution left it
ReturnUntrimmed ==
    /\ entry = "moving_average"
    /\ pc = "convolved"
    /\ ret' = Some(y_smooth)
    /\ pc' = "returned"
    /\ UNCHANGED <<argVars, x, y, y_use, L_half, err, mainVars, smoothVars>>

\* lines 68-70 taking the slice from the end: y_smooth[-y.size:]
TrimFromFront ==
    /\ entry = "moving_average"
    /\ pc = "convolved"
    /\ ret' = Some(SubSeq(y_smooth, Len(y_smooth) - Len(y) + 1, Len(y_smooth)))
    /\ pc' = "returned"
    /\ UNCHANGED <<argVars, x, y, y_use, L_half, err, mainVars, smoothVars>>

\* lines 68-71: a y_smooth longer than y is cut to y's size, starting at half
\* the excess; the slice is what is returned
TrimAndReturn ==
    /\ entry = "moving_average"
    /\ pc = "convolved"
    /\ IF Len(y_smooth) > Len(y)
       THEN LET start == (Len(y_smooth) - Len(y)) \div 2
            IN  ret' = Some(SubSeq(y_smooth, start + 1, start + Len(y)))
       ELSE ret' = Some(y_smooth)
    /\ pc' = "returned"
    /\ UNCHANGED <<argVars, x, y, y_use, L_half, err, mainVars, smoothVars>>

NextMovingAverage == ClampWindow \/ PadAndConvolve \/ TrimAndReturn

SpecMovingAverage == InitMovingAverage /\ [][NextMovingAverage]_vars

\* ----------------------------------------------------------------- cli.py

\* tables read_table returns: two columns of equal length
MainCells == {[iops |-> F(i), latency |-> F(l)] : i \in MainIopsValues, l \in MainLatencyValues}

MainTables ==
    {[iops |-> [k \in 1..Len(rows) |-> rows[k].iops],
      latency |-> [k \in 1..Len(rows) |-> rows[k].latency]] : rows \in ArraysUpTo(MainCells, MainMaxLen)}

\* --rule has choices midrange / double_min; --smooth is None or a positive int
MainArgs ==
    [rule : {"midrange", "double_min"}, smooth : {None, Some(2)},
     input2 : BOOLEAN, plot : BOOLEAN]

\* main lines 61-88: arguments parsed, the first table read
InitMain ==
    /\ mpc = "start"
    /\ args \in MainArgs
    /\ table \in MainTables
    /\ table2 = NoTable
    /\ res = None
    /\ res2 = None
    /\ report = None
    /\ plot = None
    /\ status = None
    /\ entry = "find_knee_half_latency"
    /\ iops = <<>>
    /\ latency = <<>>
    /\ rule = "midrange"
    /\ smooth_window = None
    /\ pc = "idle"
    /\ FreshFrame

\* the call of find_knee_half_latency binds its parameters; the locals of the
\* new frame are unbound: whatever they held before, the body assigns them
\* before it reads them
CallFindKnee(t) ==
    /\ entry' = "find_knee_half_latency"
    /\ iops' = t.iops
    /\ latency' = t.latency
    /\ rule' = args.rule
    /\ smooth_window' = args.smooth
    /\ pc' = "start"
    /\ ret' = None
    /\ err' = ""
    /\ UNCHANGED <<x, y, y_use, L_half, smoothVars>>

\* line 90: res = find_knee_half_latency(iops, latency, rule=args.rule, smooth_window=args.smooth)
MainCall ==
    /\ mpc = "start"
    /\ CallFindKnee(table)
    /\ mpc' = "call"
    /\ UNCHANGED <<args, table, table2, res, res2, report, plot, status>>

\* line 90 followed at once by the report of line 145, ahead of the test of
\* line 93: the report is written before the second computation is called
MainAssignThenReport ==
    /\ mpc = "call"
    /\ pc = "returned"
    /\ res' = ret
    /\ report' = Some([iops |-> table.iops, latency |-> table.latency, result |-> ret,
                       extra_lines |-> None])
    /\ mpc' = IF args.input2 THEN "compare" ELSE "report"
    /\ UNCHANGED <<frameVars, args, table, table2, res2, plot, status, smoothVars>>

\* line 90 assigns res; line 93 chooses comparison or single mode
MainAssign ==
    /\ mpc = "call"
    /\ pc = "returned"
    /\ res' = ret
    /\ mpc' = IF args.input2 THEN "compare" ELSE "report"
    /\ UNCHANGED <<frameVars, args, table, table2, res2, report, plot, status, smoothVars>>

\* lines 94-127: the second table is read and
\* res2 = find_knee_half_latency(iops2, latency2, ...) is called
MainCall2 ==
    /\ mpc = "compare"
    /\ \E t \in MainTables :
          /\ table2' = t
          /\ CallFindKnee(t)
    /\ mpc' = "call2"
    /\ UNCHANGED <<args, table, res, res2, report, plot, status>>

\* line 127 assigns res2
MainAssign2 ==
    /\ mpc = "call2"
    /\ pc = "returned"
    /\ res2' = ret
    /\ mpc' = "report"
    /\ UNCHANGED <<frameVars, args, table, table2, res, report, plot, status, smoothVars>>

\* main catches nothing: a ValueError raised by either call leaves main, and
\* sys.exit(main()) of line 162 is not reached; the interpreter exits with 1
MainRaise ==
    /\ mpc \in {"call", "call2"}
    /\ pc = "raised"
    /\ mpc' = "crashed"
    /\ status' = Some(1)
    /\ UNCHANGED <<frameVars, args, table, table2, res, res2, report, plot, smoothVars>>

\* lines 130-131 (comparison) and 145 (single): write_text_report
MainReport ==
    /\ mpc = "report"
    /\ report' = Some([iops |-> table.iops, latency |-> table.latency, result |-> res,
                       extra_lines |-> IF args.input2 THEN Some(<<res, res2>>) ELSE None])
    /\ mpc' = "plot"
    /\ UNCHANGED <<frameVars, args, table, table2, res, res2, plot, status, smoothVars>>

\* lines 133-142 and 147-156: the plot, when --plot-pdf or --show is given
MainPlot ==
    /\ mpc = "plot"
    /\ plot' = IF ~args.plot THEN None
               ELSE IF args.input2 THEN Some(<<table, res, table2, res2>>)
               ELSE Some(<<table, res>>)
    /\ mpc' = "return"
    /\ UNCHANGED <<frameVars, args, table, table2, res, res2, report, status, smoothVars>>

\* line 158: return 0
MainReturn ==
    /\ mpc = "return"
    /\ status' = Some(0)
    /\ mpc' = "done"
    /\ UNCHANGED <<frameVars, args, table, table2, res, res2, report, plot, smoothVars>>

NextMain ==
    \/ MainCall
    \/ Validate
    \/ Smooth
    \/ HalfLatency
    \/ Locate
    \/ MainAssign
    \/ MainCall2
    \/ MainAssign2
    \/ MainRaise
    \/ MainReport
    \/ MainPlot
    \/ MainReturn

SpecMain == InitMain /\ [][NextMain]_vars

\* ------------------------------------------------------- claim vocabulary

FindKneeEntry == entry = "find_knee_half_latency"

\* m is the least / greatest value among the non-missing entries of a
IsMinOf(m, a) == (\E i \in Present(a) : a[i] = m) /\ (\A i \in Present(a) : Le(m, a[i]))

IsMaxOf(m, a) == (\E i \in Present(a) : a[i] = m) /\ (\A i \in Present(a) : Le(a[i], m))

\* h is the half-latency of array a under rule r, as the rules define it
IsHalfOf(h, a, r) ==
    \E lo \in {a[i] : i \in Present(a)}, hi \in {a[i] : i \in Present(a)} :
        /\ IsMinOf(lo, a)
        /\ IsMaxOf(hi, a)
        /\ r = "midrange" => Add(h, h) = Add(lo, hi)
        /\ r = "double_min" => h = Add(lo, lo)

KnownRule == rule \in {"midrange", "double_min"}

\* the record find_knee_half_latency returned
Result == The(ret)

\* 0-based positions of the locator's latency array that reach the threshold
Crossings == {i \in 0..(Len(y_use) - 1) : Ge(y_use[i + 1], L_half)}

\* idx is the first 0-based position whose latency reaches the threshold
IsFirstCrossing(idx) == idx \in Crossings /\ \A j \in Crossings : idx <= j

Returned == FindKneeEntry /\ pc = "returned"

\* c lies strictly between a and b, whichever of the two is larger
StrictlyBetween(c, a, b) == (Lt(a, c) /\ Lt(c, b)) \/ (Lt(b, c) /\ Lt(c, a))

\* --------------------------------------------------------------------- C1

\* C1: compute_half_latency on a sequence with at least one value returns
\* (min + max) / 2 under 'midrange' and 2 * min under 'double_min', min and
\* max taken over the non-missing entries of the sequence it is given: the
\* caller's array when called directly, y_use inside find_knee_half_latency.
C1_HalfLatencyByRule ==
    /\ (entry = "compute_half_latency" /\ pc # "start" /\ KnownRule /\ Present(latency) # {})
          => pc = "returned" /\ ret # None /\ IsHalfOf(The(ret), latency, rule)
    /\ (FindKneeEntry /\ pc \in {"thresholded", "returned"})
          => KnownRule /\ IsHalfOf(L_half, y_use, rule)
    /\ Returned => Result.half_latency = L_half

\* the helper returned the midrange of an array with a missing entry
C1_Witness ==
    /\ entry = "compute_half_latency"
    /\ pc = "returned"
    /\ rule = "midrange"
    /\ latency = <<F(3), NaN, F(2)>>
    /\ The(ret) = Norm(5, 2)

\* --------------------------------------------------------------------- C2

\* the latency array the locator scans never decreases
MonotoneLatency == \A i \in 1..Len(y_use), j \in 1..Len(y_use) : i < j => Le(y_use[i], y_use[j])

\* the threshold lies strictly between samples idx-1 and idx (0-based), idx
\* being the first position that reaches it
CrossesBetween(idx) ==
    /\ idx \in 1..(Len(y_use) - 1)
    /\ IsFirstCrossing(idx)
    /\ Lt(y_use[idx], L_half)
    /\ Lt(L_half, y_use[idx + 1])

\* x[idx-1] + t * (x[idx] - x[idx-1]), t = (L_half - y[idx-1]) / (y[idx] - y[idx-1])
LinearAtp(idx) ==
    LET t == Div(Sub(L_half, y_use[idx]), Sub(y_use[idx + 1], y_use[idx]))
    IN  Add(x[idx], Mul(t, Sub(x[idx + 1], x[idx])))

\* C2 as stated: on a monotonically increasing latency whose threshold lies
\* strictly between two samples, atp is the linear interpolation, the knee
\* latency is the threshold, and atp is strictly between the two samples'
\* throughputs.
C2_AsStated ==
    Returned =>
        \A idx \in 1..(Len(y_use) - 1) :
            (MonotoneLatency /\ CrossesBetween(idx)) =>
                /\ Result.atp_iops = LinearAtp(idx)
                /\ Result.knee_latency = L_half
                /\ StrictlyBetween(Result.atp_iops, x[idx], x[idx + 1])

\* C2 amended: the same, with atp strictly between the two throughputs when
\* they differ and equal to them when the two samples have equal throughput.
C2_Interpolation ==
    Returned =>
        \A idx \in 1..(Len(y_use) - 1) :
            (MonotoneLatency /\ CrossesBetween(idx)) =>
                /\ Result.atp_iops = LinearAtp(idx)
                /\ Result.knee_latency = L_half
                /\ Result.half_latency = L_half
                /\ x[idx] # x[idx + 1] => StrictlyBetween(Result.atp_iops, x[idx], x[idx + 1])
                /\ x[idx] = x[idx + 1] => Result.atp_iops = x[idx]

\* an interpolated knee between two samples of different throughput, at a
\* fraction other than one half
C2_Witness ==
    /\ Returned
    /\ MonotoneLatency
    /\ \E idx \in 1..(Len(y_use) - 1) :
          /\ CrossesBetween(idx)
          /\ x[idx] # x[idx + 1]
          /\ StrictlyBetween(Result.atp_iops, x[idx], x[idx + 1])
          /\ Add(Result.atp_iops, Result.atp_iops) # Add(x[idx], x[idx + 1])

\* --------------------------------------------------------------------- C3

\* the threshold exceeds every sample of the latency array the locator scans
NoCrossing == \A i \in 1..Len(y_use) : Lt(y_use[i], L_half)

\* C3: when the threshold exceeds every latency sample, find_knee_half_latency
\* does not fail and returns the last sample: atp = last throughput, knee
\* latency = last latency, left = size - 2, right = size - 1.
C3_NoCrossingLastPoint ==
    /\ (FindKneeEntry /\ pc = "thresholded" /\ NoCrossing) => ENABLED Locate
    /\ (Returned /\ NoCrossing) =>
          /\ Result.atp_iops = x[Len(x)]
          /\ Result.knee_latency = y_use[Len(y_use)]
          /\ Result.knee_index_left = Some(Len(x) - 2)
          /\ Result.knee_index_right = Some(Len(x) - 1)

\* a returned result whose threshold no sample of a 3-sample series reaches
C3_Witness ==
    /\ Returned
    /\ NoCrossing
    /\ Len(x) = 3
    /\ x[3] # x[2]
    /\ Result.knee_index_right = Some(2)

\* --------------------------------------------------------------------- C4

\* the first crossing is an exact match of the threshold, or is sample 0
ExactOrFirst(idx) == IsFirstCrossing(idx) /\ (Eq(y_use[idx + 1], L_half) \/ idx = 0)

Kept == {i \in 1..Len(iops) : i <= Len(latency) /\ ~IsNaN(iops[i]) /\ ~IsNaN(latency[i])}

\* the orders of the validated pairs that are ascending in throughput
AscendingOrders ==
    {p \in [1..Len(x) -> 1..Len(x)] :
        /\ \A i \in 1..Len(x), j \in 1..Len(x) : i # j => p[i] # p[j]
        /\ \A i \in 1..Len(x), j \in 1..Len(x) : i < j => Le(x[p[i]], x[p[j]])}

\* the knee of the validated pairs taken in order p
KneeInOrder(p) ==
    find_knee_half_latency([k \in 1..Len(x) |-> x[p[k]]], [k \in 1..Len(y) |-> y[p[k]]],
                           rule, smooth_window).ret

\* C5: whatever the order of the input, the result is the knee of the series
\* with the missing pairs removed and the rest sorted by ascending throughput.
C5_KneeOfSortedSeries == Returned => \E p \in AscendingOrders : ret = KneeInOrder(p)

\* --------------------------------------------------------------------- C6

\* how many kept positions lie at or before position i
KeptUpTo(i) == Cardinality({j \in Kept : j <= i})

\* the call outcome with input cell i of iops / latency replaced by v
OutcomeWithIops(i, v) ==
    find_knee_half_latency([iops EXCEPT ![i] = v], latency, rule, smooth_window)

OutcomeWithLatency(i, v) ==
    find_knee_half_latency(iops, [latency EXCEPT ![i] = v], rule, smooth_window)

ShapeErrors == {"iops and latency must be the same length"}

InsufficientDataErrors ==
    {"need at least two points to determine a knee", "not enough valid points after removing NaNs"}

\* C7: normalization passes exactly when the two sequences have equal length
\* and at least 2 positions hold both values; unequal lengths fail with the
\* shape error and fewer than 2 valid pairs with an insufficient-data error,
\* no result being returned; the series handed on has length >= 2.
C7_NormalizationGate ==
    (FindKneeEntry /\ pc # "start") =>
        /\ Len(iops) # Len(latency) => pc = "raised" /\ err \in ShapeErrors /\ ret = None
        /\ (Len(iops) = Len(latency) /\ Cardinality(Kept) < 2) =>
              pc = "raised" /\ err \in InsufficientDataErrors /\ ret = None
        /\ (Len(iops) = Len(latency) /\ Cardinality(Kept) >= 2) =>
              err \notin (ShapeErrors \cup InsufficientDataErrors)
        /\ pc \in {"validated", "smoothed", "thresholded", "returned"} =>
              Len(x) >= 2 /\ Len(y) = Len(x)
        /\ pc \in {"smoothed", "thresholded", "returned"} => Len(y_use) = Len(x)

\* two positions of which only one holds both values: insufficient data
C7_Witness ==
    /\ FindKneeEntry
    /\ pc = "raised"
    /\ Len(iops) = 2 /\ Len(latency) = 2
    /\ Cardinality(Kept) = 1
    /\ err = "not enough valid points after removing NaNs"
    /\ ret = None

\* --------------------------------------------------------------------- C8

\* the input of find_knee_half_latency is otherwise valid
ValidSeries == Len(iops) = Len(latency) /\ Cardinality(Kept) >= 2

UnknownRuleRaised == pc = "raised" /\ err = "Unknown half-latency rule" /\ ret = None /\ L_half = NaN

\* C8 as stated: for any selector other than the two rules compute_half_latency,
\* and find_knee_half_latency on an otherwise valid series, fail with the
\* unknown-rule error, produce no threshold and no result, and substitute no
\* default rule.
C8_AsStated ==
    ~KnownRule =>
        /\ (entry = "compute_half_latency" /\ pc # "start") => UnknownRuleRaised
        /\ (FindKneeEntry /\ ValidSeries) =>
              /\ pc \notin {"thresholded", "returned"}
              /\ pc = "smoothed" => ENABLED HalfLatency
              /\ pc = "raised" => UnknownRuleRaised

\* C8 amended: the same for compute_half_latency on a latency sequence with at
\* least one entry; on an empty sequence the min/max reduction raises first,
\* whatever the selector.
C8_UnknownRuleRejected ==
    ~KnownRule =>
        /\ (entry = "compute_half_latency" /\ pc # "start" /\ Len(latency) >= 1) => UnknownRuleRaised
        /\ (entry = "compute_half_latency" /\ pc # "start" /\ Len(latency) = 0) =>
              pc = "raised" /\ ret = None
        /\ (FindKneeEntry /\ ValidSeries) =>
              /\ pc \notin {"thresholded", "returned"}
              /\ pc = "smoothed" => ENABLED HalfLatency
              /\ pc = "raised" => UnknownRuleRaised

\* find_knee_half_latency rejected the selector on a valid 3-sample series
C8_Witness ==
    /\ FindKneeEntry
    /\ ValidSeries
    /\ Len(y_use) = 3
    /\ rule = "bogus"
    /\ UnknownRuleRaised

\* --------------------------------------------------------------------- C9

Defined(r) == ~IsNaN(r.atp_iops) /\ ~IsNaN(r.knee_latency) /\ ~IsNaN(r.half_latency)

\* on valid input: no error raised, and a returned record is fully defined
NoRaiseAndDefined ==
    (FindKneeEntry /\ ValidSeries /\ KnownRule) =>
        /\ pc # "raised"
        /\ err = ""
        /\ pc = "returned" => ret # None /\ Defined(Result)

\* C9: on a series with at least 2 valid pairs, under either rule and any
\* window (absent or a positive integer, also one beyond the series length),
\* find_knee_half_latency never raises, runs to its return, and returns a
\* record whose atp, knee latency and threshold are defined.
C9_NeverRaisesOnValidInput ==
    /\ []NoRaiseAndDefined
    /\ (FindKneeEntry /\ ValidSeries /\ KnownRule) ~> (pc = "returned" /\ ret # None)

\* a result for a series with a missing pair, smoothed with a window longer
\* than the series
C9_Witness ==
    /\ Returned
    /\ Len(iops) = 3
    /\ Cardinality(Kept) = 2
    /\ smooth_window # None
    /\ The(smooth_window) > Len(iops)
    /\ y_use # y
    /\ Defined(Result)

\* -------------------------------------------------------------------- C10

\* what the invocation in progress has produced: the error or the record
Outcome == [err |-> err, ret |-> ret]

\* what find_knee_half_latency yields on table t with main's rule and window
KneeOf(t) == find_knee_half_latency(t.iops, t.latency, args.rule, args.smooth)

\* C10: the outcome of an invocation of find_knee_half_latency is determined
\* by its four arguments alone, whatever invocation ran before it in the same
\* run: each finished invocation yields the function of its own arguments, the
\* two legs of comparison mode yield identical records (or the same error) on
\* identical tables, and the second leg leaves the first leg's record alone.
C10_ResultDependsOnArgumentsOnly ==
    /\ pc \in {"returned", "raised"} =>
          Outcome = find_knee_half_latency(iops, latency, rule, smooth_window)
    /\ res # None => KneeOf(table) = [err |-> "", ret |-> res]
    /\ res2 # None => KneeOf(table2) = [err |-> "", ret |-> res2]
    /\ (mpc = "call2" /\ table2 = table) => pc # "raised"
    /\ (res2 # None /\ table2 = table) => res2 = res
    /\ (mpc = "crashed" /\ res = None) => KneeOf(table) = Outcome
    /\ (mpc = "crashed" /\ res # None) => KneeOf(table2) = Outcome

\* a comparison run whose two legs got the same table and returned the same
\* record, the latency having been smoothed
C10_Witness ==
    /\ mpc = "done"
    /\ args.input2
    /\ args.smooth # None
    /\ table2 = table
    /\ res # None
    /\ res2 = res

\* -------------------------------------------------------------------- C11

MovingAverageEntry == entry = "moving_average"

\* how many elements the trim of lines 68-70 dropped before / after the
\* slice it returned
TrimmedFront == (Len(y_smooth) - Len(y)) \div 2

TrimmedBack == (Len(y_smooth) - Len(y)) - TrimmedFront

\* C11: for every non-empty sequence and every window (None, <= 1, odd, even,
\* longer than the sequence) moving_average returns a sequence of the input's
\* length; the convolution never yields fewer elements than the input, and
\* its excess is cut off evenly from both ends: half of it, rounded down, in
\* front and the rest at the end.
C11_OutputLengthIsInputLength ==
    MovingAverageEntry =>
        /\ pc = "convolved" => Len(y_smooth) >= Len(y)
        /\ pc = "returned" =>
              /\ ret # None
              /\ Len(The(ret)) = Len(y)
              /\ The(ret) = moving_average(y, smooth_window)
        /\ (pc = "returned" /\ y_smooth # <<>>) =>
              /\ TrimmedFront >= 0
              /\ TrimmedBack - TrimmedFront \in {0, 1}
              /\ \A i \in 1..Len(y) : The(ret)[i] = y_smooth[TrimmedFront + i]

\* an even window on a 3-sample sequence: the convolution is one element too
\* long and the returned slice differs from the input
C11_Witness ==
    /\ MovingAverageEntry
    /\ pc = "returned"
    /\ Len(y) = 3
    /\ smooth_window = Some(2)
    /\ Len(y_smooth) = 4
    /\ Len(The(ret)) = 3
    /\ The(ret) # y

\* -------------------------------------------------------------------- C12

\* the input's value at position k, positions outside the sequence taking
\* the nearest edge value
EdgeValue(a, k) == a[IF k < 1 THEN 1 ELSE IF k > Len(a) THEN Len(a) ELSE k]

RECURSIVE EdgeSum(_, _, _)
EdgeSum(a, lo, hi) == IF lo > hi THEN F(0) ELSE Add(EdgeValue(a, lo), EdgeSum(a, lo + 1, hi))

\* the window the caller asked for, cut down to the sequence length
EffectiveWindow == IF The(smooth_window) > Len(y) THEN Len(y) ELSE The(smooth_window)

\* m is the mean of the w values at positions lo..lo+w-1
IsMeanOf(m, a, lo, w) == Mul(m, F(w)) = EdgeSum(a, lo, lo + w - 1)

AllKneesReturned == res # None /\ (args.input2 => res2 # None)

\* a knee computation of the run raised
KneeFailed == mpc \in {"call", "call2", "crashed"} /\ pc = "raised"

\* C13: in single and in comparison mode the report is written and the plot
\* rendered only after every knee computation of the run (one, or two in
\* comparison mode) has returned its record; when a knee computation raises,
\* the error leaves main: no report, no plot, and the exit status is not 0.
C13_RenderOnlyAfterAllKnees ==
    /\ report # None => AllKneesReturned
    /\ plot # None => AllKneesReturned /\ report # None
    /\ mpc \in {"report", "plot", "return", "done"} => AllKneesReturned
    /\ status = Some(0) => AllKneesReturned /\ report # None /\ mpc = "done"
    /\ KneeFailed =>
          /\ report = None
          /\ plot = None
          /\ status # Some(0)
          /\ mpc # "crashed" => ENABLED MainRaise
          /\ mpc = "crashed" => status = Some(1)
    /\ mpc = "crashed" => KneeFailed

\* a comparison run with a plot requested whose first computation returned
\* and whose second one raised: nothing rendered, exit status 1
C13_Witness ==
    /\ mpc = "crashed"
    /\ args.input2
    /\ args.plot
    /\ res # None
    /\ res2 = None
    /\ pc = "raised"
    /\ report = None
    /\ plot = None
    /\ status = Some(1)

\* -------------------------------------------------------------------- C14

\* C14: whenever some sample of the series the locator scans (the validated
\* latency, smoothed or not) reaches the threshold, the right index reported
\* is the smallest index, in array order, of such a sample: every sample at a
\* lower index has latency strictly below the threshold.
C14_RightIsFirstCrossing ==
    (Returned /\ Crossings # {}) =>
        /\ Result.knee_index_right # None
        /\ IsFirstCrossing(The(Result.knee_index_right))
        /\ \A j \in 0..(The(Result.knee_index_right) - 1) : Lt(y_use[j + 1], L_half)

\* the threshold is reached first at sample 1 and again at sample 2
C14_Witness ==
    /\ Returned
    /\ Len(y_use) = 3
    /\ Crossings = {1, 2}
    /\ Result.knee_index_right = Some(1)
    /\ Lt(y_use[1], L_half)

\* -------------------------------------------------------------------- C15

\* C15: in every record find_knee_half_latency returns, the right index is
\* present and lies in 0..size-1 of the validated series; the left index is
\* right - 1 when right > 0 and None exactly when right = 0; so whenever both
\* are present right = left + 1.
C15_IndicesAdjacent ==
    Returned =>
        /\ Result.knee_index_right # None
        /\ The(Result.knee_index_right) \in 0..(Len(x) - 1)
        /\ The(Result.knee_index_right) > 0 =>
              Result.knee_index_left = Some(The(Result.knee_index_right) - 1)
        /\ Result.knee_index_left = None <=> The(Result.knee_index_right) = 0
        /\ (Result.knee_index_left # None) =>
              The(Result.knee_index_right) = The(Result.knee_index_left) + 1

\* a record whose knee is sample 0 of a 3-sample series: no left index
C15_Witness ==
    /\ Returned
    /\ Len(x) = 3
    /\ Result.knee_index_right = Some(0)
    /\ Result.knee_index_left = None

\* -------------------------------------------------------------------- C16

\* the locator is in its interpolation branch at 0-based index idx: idx is
\* the first crossing, is not sample 0, and is not an exact match
InterpolationBranch(idx) == idx > 0 /\ IsFirstCrossing(idx) /\ ~Eq(y_use[idx + 1], L_half)

\* t = (L_half - y0) / (y1 - y0) of line 100
Fraction(idx) == Div(Sub(L_half, y_use[idx]), Sub(y_use[idx + 1], y_use[idx]))

\* C16: in the interpolation branch latency[idx-1] < threshold < latency[idx]:
\* the denominator latency[idx] - latency[idx-1] is strictly positive, the
\* fraction t lies strictly between 0 and 1, and the flat-segment fallback of
\* lines 98-99 (latency[idx] == latency[idx-1], knee latency latency[idx]) is
\* not taken: the record carries the threshold and the interpolated atp.
C16_InterpolationBrackets ==
    (FindKneeEntry /\ pc \in {"thresholded", "returned"}) =>
        \A idx \in 0..(Len(y_use) - 1) :
            InterpolationBranch(idx) =>
                /\ Lt(y_use[idx], L_half)
                /\ Lt(L_half, y_use[idx + 1])
                /\ Lt(F(0), Sub(y_use[idx + 1], y_use[idx]))
                /\ ~Eq(y_use[idx + 1], y_use[idx])
                /\ Lt(F(0), Fraction(idx)) /\ Lt(Fraction(idx), F(1))
                /\ pc = "returned" =>
                      /\ Result.knee_latency = L_half
                      /\ Result.knee_latency # y_use[idx + 1]
                      /\ Result.atp_iops = LinearAtp(idx)
                      /\ Result.knee_index_right = Some(idx)

\* an interpolated knee on a series that had a missing latency removed and
\* was then smoothed
C16_Witness ==
    /\ Returned
    /\ Missing(latency) # {}
    /\ y_use # y
    /\ \E idx \in 1..(Len(y_use) - 1) :
          /\ InterpolationBranch(idx)
          /\ Result.knee_index_right = Some(idx)
          /\ Result.knee_latency = L_half

\* -------------------------------------------------------------------- C17

\* m is the greatest sample of the series the threshold was computed from
IsGreatestSample(m) == (\E i \in 1..Len(y_use) : y_use[i] = m) /\ (\A i \in 1..Len(y_use) : Le(y_use[i], m))

\* C17: under 'midrange', with or without smoothing, the threshold does not
\* exceed the greatest sample of the series it was computed from, so some
\* sample reaches it; a record returned from the no-crossing branch (the
\* last sample) therefore comes from a call under 'double_min'.
C17_MidrangeAlwaysCrosses ==
    /\ (FindKneeEntry /\ pc \in {"thresholded", "returned"} /\ rule = "midrange") =>
          /\ \E i \in 1..Len(y_use) : IsGreatestSample(y_use[i]) /\ Le(L_half, y_use[i])
          /\ Crossings # {}
          /\ ~NoCrossing
    /\ (FindKneeEntry /\ pc \in {"thresholded", "returned"} /\ NoCrossing) => rule = "double_min"

\* a midrange call on a smoothed series whose threshold only the last sample
\* reaches
C17_Witness ==
    /\ Returned
    /\ rule = "midrange"
    /\ y_use # y
    /\ Len(y_use) = 3
    /\ Crossings = {2}
    /\ Lt(L_half, y_use[3])

====
